---- MODULE Spec2Model ----
(***************************************************************************)
(* Hand Warmer: the load orchestration core.                               *)
(*                                                                         *)
(*   main thread   HandWarmerApp (app.js): slide toggle, potentiometer,    *)
(*                 startHeating / stopHeating / updateHeating / renderGPU, *)
(*                 wake lock, visibilitychange and beforeunload handlers   *)
(*   worker        worker.js: message listener and heatingLoop, run as     *)
(*                 message tasks and timer tasks of the worker event loop  *)
(*   platform      the worker's message port, the animation-frame callback *)
(*                 list, the wake-lock sentinels                           *)
(*                                                                         *)
(* Every handler runs to completion, so one handler is one action.  The    *)
(* main-thread handlers are written as functions from the record App (the  *)
(* fields a handler can read or write) to the record after the call, so    *)
(* that a handler calling another is function composition.                 *)
(***************************************************************************)
EXTENDS Integers, Sequences, FiniteSets, TLC

\* ------------------------------------------------------------------ bounds
MaxQueue == 2        \* messages in flight to the worker
MaxSessions == 2     \* wake-lock requests issued in one run
MaxTimers == 2       \* heatingLoop continuations scheduled at once
MaxCount == 2        \* saturation of the units-since-stop counter
MaxTime == 2         \* clock ticks in one run

\* pointer positions (clientY, in pixels) the drag events carry: the knob is
\* pressed at 0 and dragged 100 pixels up or down
DownYs == {0}
MoveYs == {-100, 100}

\* ------------------------------------------------------- program constants
DefaultPower == 30
minAngle == 2250               \* tenths of a degree
maxAngle == 4950
sensitivity == 27              \* tenths of a degree per pixel
IterationScale == 1000000
IterationFloor == 10000
Mechanisms == {"both", "cpu", "gpu"}
MAX_ITERATIONS == 200          \* fragment shader, first loop
MAX_ITERATIONS_2 == 100        \* second loop
MAX_ITERATIONS_3 == 50         \* third loop
MantissaBits == 24             \* highp float: IEEE single precision
\* GLSL ES leaves the rounding of a float operation undefined; GPUs round the
\* product to nearest or truncate it
RoundingModes == {"nearest", "down"}

VARIABLES
    \* HandWarmerApp fields
    isHeating, power, mechanism, worker, gpu, animationFrame, wakeLock,
    potentiometerAngle, isDraggingPotentiometer, potentiometerStartY,
    potentiometerStartAngle, isDraggingSlide,
    startTime,
    \* platform
    hidden, wakeLockSupported, locks, pendingFrames, msgQueue, now,
    mechanismSelect,
    \* worker.js
    isRunning, currentPower, timers,
    \* observation of what the engines did
    lastPosted, lastNonZero, lastUnit, uPower, sinceStop, uTime, sessionStart,
    \* one run of the fragment shader
    rounding, loop1, loop2, loop3

appVars == <<isHeating, power, mechanism, animationFrame, wakeLock,
             potentiometerAngle, isDraggingPotentiometer, potentiometerStartY,
             potentiometerStartAngle, isDraggingSlide, startTime>>
envVars == <<worker, gpu, wakeLockSupported>>
drawVars == <<uPower, uTime, sessionStart>>
workerVars == <<isRunning, currentPower, timers, lastNonZero, lastUnit>>
shaderVars == <<rounding, loop1, loop2, loop3>>
vars == <<appVars, envVars, hidden, locks, pendingFrames, msgQueue, workerVars,
          lastPosted, drawVars, sinceStop, shaderVars, now, mechanismSelect>>

\* ---------------------------------------------------------------- helpers
Slots == 1..MaxSessions
Min(a, b) == IF a < b THEN a ELSE b
Max(a, b) == IF a > b THEN a ELSE b

\* Math.round of n/d for n >= 0, d > 0 (halves round up)
Round(n, d) == (2 * n + d) \div (2 * d)

\* The fields a main-thread handler reads and writes.  uPower observes the
\* task: the u_power uniform (times 100) of the draw it issues, -1 while it
\* has issued none.  uTime is the u_time uniform of the latest draw of the
\* session, -1 while the session has drawn nothing; sessionStart is the clock
\* at the startHeating call that opened the session.
App == [isHeating |-> isHeating, power |-> power, mechanism |-> mechanism,
        worker |-> worker, gpu |-> gpu, startTime |-> startTime,
        animationFrame |-> animationFrame, wakeLock |-> wakeLock,
        potentiometerAngle |-> potentiometerAngle,
        isDraggingPotentiometer |-> isDraggingPotentiometer,
        potentiometerStartY |-> potentiometerStartY,
        potentiometerStartAngle |-> potentiometerStartAngle,
        isDraggingSlide |-> isDraggingSlide,
        locks |-> locks, pendingFrames |-> pendingFrames,
        msgQueue |-> msgQueue, lastPosted |-> lastPosted,
        uPower |-> -1, sinceStop |-> sinceStop,
        uTime |-> uTime, sessionStart |-> sessionStart]

\* The state after a handler that ends in s.
Commit(s) ==
    /\ Len(s.msgQueue) <= MaxQueue
    /\ Len(s.locks) <= MaxSessions
    /\ isHeating' = s.isHeating
    /\ power' = s.power
    /\ mechanism' = s.mechanism
    /\ animationFrame' = s.animationFrame
    /\ wakeLock' = s.wakeLock
    /\ potentiometerAngle' = s.potentiometerAngle
    /\ isDraggingPotentiometer' = s.isDraggingPotentiometer
    /\ potentiometerStartY' = s.potentiometerStartY
    /\ potentiometerStartAngle' = s.potentiometerStartAngle
    /\ isDraggingSlide' = s.isDraggingSlide
    /\ locks' = s.locks
    /\ pendingFrames' = s.pendingFrames
    /\ msgQueue' = s.msgQueue
    /\ lastPosted' = s.lastPosted
    /\ uPower' = s.uPower
    /\ sinceStop' = s.sinceStop
    /\ startTime' = s.startTime
    /\ uTime' = s.uTime
    /\ sessionStart' = s.sessionStart
    /\ UNCHANGED <<envVars, workerVars, shaderVars, now, mechanismSelect>>

\* ------------------------------------------------------------ main thread

\* this.worker.postMessage({ power: p })
postMessage(s, p) ==
    [s EXCEPT !.msgQueue = Append(@, p),
              !.lastPosted = p,
              !.sinceStop = IF p = 0 /\ isRunning /\ @ = -1 THEN 0 ELSE @]

\* requestAnimationFrame returns a handle no pending callback has
FreshFrame(s) ==
    CHOOSE id \in 1..(Cardinality(s.pendingFrames) + 2) :
        id \notin s.pendingFrames /\ id # s.animationFrame

requestAnimationFrame(s) ==
    LET id == FreshFrame(s) IN
    [s EXCEPT !.pendingFrames = @ \cup {id}, !.animationFrame = id]

cancelAnimationFrame(s, id) == [s EXCEPT !.pendingFrames = @ \ {id}]

\* releaseWakeLock that forgets `this.wakeLock = null`
releaseWakeLock_keepHandle(s) ==
    IF s.wakeLock # 0
    THEN [s EXCEPT !.locks[s.wakeLock] =
                       [status |-> "released", releases |-> @.releases + 1]]
    ELSE s

releaseWakeLock(s) ==
    IF s.wakeLock # 0
    THEN [s EXCEPT !.locks[s.wakeLock] =
                       [status |-> "released", releases |-> @.releases + 1],
                   !.wakeLock = 0]
    ELSE s

\* (Date.now() - this.startTime) / 1000.0, in clock ticks
Elapsed(s) == now - s.startTime

renderGPU(s) ==
    IF ~s.gpu \/ ~s.isHeating THEN s
    ELSE IF s.mechanism # "both" /\ s.mechanism # "gpu" THEN s
    ELSE IF s.power = 0 THEN s
    ELSE requestAnimationFrame([s EXCEPT !.uPower = s.power,
                                         !.uTime = Elapsed(s)])

CpuMessage(mech, p) ==
    LET shouldUseCPU == mech = "both" \/ mech = "cpu" IN
    IF shouldUseCPU /\ p > 0 THEN p ELSE 0

\* updateHeating without its `if (!this.isHeating) return`
updateHeating_noGuard(s) ==
    LET shouldUseGPU == s.mechanism = "both" \/ s.mechanism = "gpu"
        s1 == IF s.worker THEN postMessage(s, CpuMessage(s.mechanism, s.power))
              ELSE s
    IN  IF s.gpu
        THEN IF shouldUseGPU /\ s1.power > 0
             THEN IF s1.animationFrame = 0
                  THEN requestAnimationFrame([s1 EXCEPT !.uPower = s1.power,
                                                        !.uTime = Elapsed(s1)])
                  ELSE s1
             ELSE IF s1.animationFrame # 0
                  THEN [cancelAnimationFrame(s1, s1.animationFrame)
                            EXCEPT !.animationFrame = 0]
                  ELSE s1
        ELSE s1

\* updateHeating that starts the frame loop but never cancels it
updateHeating_noCancel(s) ==
    IF ~s.isHeating THEN s
    ELSE
      LET shouldUseGPU == s.mechanism = "both" \/ s.mechanism = "gpu"
          s1 == IF s.worker THEN postMessage(s, CpuMessage(s.mechanism, s.power))
                ELSE s
      IN  IF s.gpu /\ shouldUseGPU /\ s1.power > 0 /\ s1.animationFrame = 0
          THEN renderGPU(s1)
          ELSE s1

\* updateHeating that posts the intensity but has no else branch posting 0
updateHeating_noZeroPost(s) ==
    IF ~s.isHeating THEN s
    ELSE
      LET shouldUseCPU == s.mechanism = "both" \/ s.mechanism = "cpu"
          shouldUseGPU == s.mechanism = "both" \/ s.mechanism = "gpu"
          s1 == IF s.worker /\ shouldUseCPU /\ s.power > 0
                THEN postMessage(s, s.power)
                ELSE s
      IN  IF s.gpu
          THEN IF shouldUseGPU /\ s1.power > 0
               THEN IF s1.animationFrame = 0 THEN renderGPU(s1) ELSE s1
               ELSE IF s1.animationFrame # 0
                    THEN [cancelAnimationFrame(s1, s1.animationFrame)
                              EXCEPT !.animationFrame = 0]
                    ELSE s1
          ELSE s1

\* updateHeating with the GPU update written inside `if (this.worker)`
updateHeating_gpuNeedsWorker(s) ==
    IF ~s.isHeating \/ ~s.worker THEN s
    ELSE
      LET shouldUseGPU == s.mechanism = "both" \/ s.mechanism = "gpu"
          s1 == postMessage(s, CpuMessage(s.mechanism, s.power))
      IN  IF s.gpu
          THEN IF shouldUseGPU /\ s1.power > 0
               THEN IF s1.animationFrame = 0 THEN renderGPU(s1) ELSE s1
               ELSE IF s1.animationFrame # 0
                    THEN [cancelAnimationFrame(s1, s1.animationFrame)
                              EXCEPT !.animationFrame = 0]
                    ELSE s1
          ELSE s1

\* updateHeating that takes a new startTime whenever it starts the frame loop
updateHeating_resetTime(s) ==
    IF ~s.isHeating THEN s
    ELSE
      LET shouldUseGPU == s.mechanism = "both" \/ s.mechanism = "gpu"
          s1 == IF s.worker THEN postMessage(s, CpuMessage(s.mechanism, s.power))
                ELSE s
      IN  IF s.gpu
          THEN IF shouldUseGPU /\ s1.power > 0
               THEN IF s1.animationFrame = 0
                    THEN renderGPU([s1 EXCEPT !.startTime = now])
                    ELSE s1
               ELSE IF s1.animationFrame # 0
                    THEN [cancelAnimationFrame(s1, s1.animationFrame)
                              EXCEPT !.animationFrame = 0]
                    ELSE s1
          ELSE s1

\* updateHeating calling renderGPU without its `if (!this.animationFrame)`
updateHeating_alwaysRender(s) ==
    IF ~s.isHeating THEN s
    ELSE
      LET shouldUseGPU == s.mechanism = "both" \/ s.mechanism = "gpu"
          s1 == IF s.worker THEN postMessage(s, CpuMessage(s.mechanism, s.power))
                ELSE s
      IN  IF s.gpu
          THEN IF shouldUseGPU /\ s1.power > 0
               THEN renderGPU(s1)
               ELSE IF s1.animationFrame # 0
                    THEN [cancelAnimationFrame(s1, s1.animationFrame)
                              EXCEPT !.animationFrame = 0]
                    ELSE s1
          ELSE s1

updateHeating(s) ==
    IF ~s.isHeating THEN s
    ELSE
      LET shouldUseGPU == s.mechanism = "both" \/ s.mechanism = "gpu"
          s1 == IF s.worker THEN postMessage(s, CpuMessage(s.mechanism, s.power))
                ELSE s
      IN  IF s.gpu
          THEN IF shouldUseGPU /\ s1.power > 0
               THEN IF s1.animationFrame = 0 THEN renderGPU(s1) ELSE s1
               ELSE IF s1.animationFrame # 0
                    THEN [cancelAnimationFrame(s1, s1.animationFrame)
                              EXCEPT !.animationFrame = 0]
                    ELSE s1
          ELSE s1

\* try { this.worker.postMessage({ power: p }) } catch (error) { warn }:
\* a call that throws posts nothing and the handler goes on
tryPostMessage(s, p, throws) == IF throws THEN s ELSE postMessage(s, p)

\* stopHeating, its postMessage call throwing or not
stopHeatingWhen(s, throws) ==
    IF ~s.isHeating THEN s
    ELSE
      LET s1 == releaseWakeLock([s EXCEPT !.isHeating = FALSE, !.uTime = -1])
          s2 == IF s1.worker THEN tryPostMessage(s1, 0, throws) ELSE s1
      IN  IF s2.animationFrame # 0
          THEN [cancelAnimationFrame(s2, s2.animationFrame)
                    EXCEPT !.animationFrame = 0]
          ELSE s2

\* stopHeating without its `if (!this.isHeating) return`
stopHeating_noGuard(s) ==
    stopHeatingWhen([s EXCEPT !.isHeating = TRUE], FALSE)

\* postMessage of a plain { power } object does not throw
stopHeating(s) == stopHeatingWhen(s, FALSE)

\* navigator.wakeLock.request("screen"): a new sentinel, pending
request(s) ==
    [s EXCEPT !.locks = Append(@, [status |-> "pending", releases |-> 0])]

\* startHeating up to the point where it awaits the wake-lock request; with
\* no wake-lock API the await resumes in the same task's microtasks.
startHeating(s) ==
    IF s.isHeating THEN s
    ELSE
      LET s1 == [s EXCEPT !.isHeating = TRUE, !.sessionStart = now,
                          !.uTime = -1]
      IN  IF wakeLockSupported THEN request(s1) ELSE updateHeating(s1)


\* ------------------------------------------------------- main-thread tasks

\* knob mousedown / touchstart (one pointer: no other drag is under way)
KnobDown(y) ==
    /\ ~hidden
    /\ ~isDraggingSlide
    /\ ~isDraggingPotentiometer
    /\ Commit([App EXCEPT !.isDraggingPotentiometer = TRUE,
                          !.potentiometerStartY = y,
                          !.potentiometerStartAngle = potentiometerAngle])
    /\ UNCHANGED hidden

\* slide track mousedown / touchstart (one pointer)
SlideDown ==
    /\ ~hidden
    /\ ~isDraggingPotentiometer
    /\ ~isDraggingSlide
    /\ Commit([App EXCEPT !.isDraggingSlide = TRUE])
    /\ UNCHANGED hidden

\* handleMove without Math.max(minAngle, Math.min(maxAngle, ...))
handleMove_noClamp(s, clientY) ==
    IF ~s.isDraggingPotentiometer THEN s
    ELSE
      LET deltaY == s.potentiometerStartY - clientY
          newAngle == s.potentiometerStartAngle + deltaY * sensitivity
          s1 == [s EXCEPT !.potentiometerAngle = newAngle,
                          !.power = (2 * (newAngle - minAngle) * 100
                                       + (maxAngle - minAngle))
                                    \div (2 * (maxAngle - minAngle))]
      IN  IF s1.isHeating THEN updateHeating(s1) ELSE s1

\* the potentiometer's handleMove
handleMove(s, clientY) ==
    IF ~s.isDraggingPotentiometer THEN s
    ELSE
      LET deltaY == s.potentiometerStartY - clientY
          newAngle == Max(minAngle,
                          Min(maxAngle,
                              s.potentiometerStartAngle + deltaY * sensitivity))
          s1 == [s EXCEPT !.potentiometerAngle = newAngle,
                          !.power = Round((newAngle - minAngle) * 100,
                                          maxAngle - minAngle)]
      IN  IF s1.isHeating THEN updateHeating(s1) ELSE s1

\* document mousemove / touchmove while the knob is dragged
PointerMove(y) ==
    /\ ~hidden
    /\ isDraggingPotentiometer
    /\ Commit(handleMove(App, y))
    /\ UNCHANGED hidden

\* the slide toggle's handleEnd; activate is (percentage > threshold)
handleEnd(s, activate) ==
    IF ~s.isDraggingSlide THEN s
    ELSE
      LET s1 == [s EXCEPT !.isDraggingSlide = FALSE] IN
      IF activate THEN startHeating(s1) ELSE stopHeating(s1)

\* document mouseup / touchend: the potentiometer's handleEnd, then the
\* slide toggle's
PointerUp(activate) ==
    /\ ~hidden
    /\ isDraggingPotentiometer \/ isDraggingSlide
    /\ Commit(handleEnd([App EXCEPT !.isDraggingPotentiometer = FALSE], activate))
    /\ UNCHANGED hidden

\* The platform releases every screen wake lock of a document that becomes
\* hidden; release() was not called by the program for these.
PlatformRelease(s) ==
    [s EXCEPT !.locks = [h \in DOMAIN @ |->
                            IF @[h].status = "held"
                            THEN [@[h] EXCEPT !.status = "released"]
                            ELSE @[h]]]

\* visibilitychange
VisibilityChange ==
    /\ hidden' = ~hidden
    /\ IF hidden' THEN Commit(PlatformRelease(stopHeating(App))) ELSE Commit(App)

\* beforeunload
BeforeUnload ==
    /\ isHeating
    /\ Commit(stopHeating(App))
    /\ UNCHANGED hidden

\* navigator.wakeLock.request("screen") settles and startHeating resumes
\* after its await: requestWakeLock stores the sentinel when granted, then
\* updateHeating runs.  A hidden document is never granted a screen lock.
WakeLockSettled(h, granted) ==
    /\ h \in DOMAIN locks
    /\ locks[h].status = "pending"
    /\ granted => ~hidden
    /\ LET s1 == IF granted
                 THEN [App EXCEPT !.locks[h].status = "held", !.wakeLock = h]
                 ELSE [App EXCEPT !.locks[h].status = "rejected"]
       IN  Commit(updateHeating(s1))
    /\ UNCHANGED hidden

\* a display refresh runs the pending animation-frame callback
AnimationFrame(id) ==
    /\ id \in pendingFrames
    /\ Commit(renderGPU([App EXCEPT !.pendingFrames = @ \ {id}]))
    /\ UNCHANGED hidden

\* the clock Date.now() reads moves on
Tick ==
    /\ now < MaxTime
    /\ now' = now + 1
    /\ UNCHANGED <<appVars, envVars, hidden, locks, pendingFrames, msgQueue,
                   workerVars, lastPosted, drawVars, sinceStop, shaderVars,
                   mechanismSelect>>

\* The user picks an option of the mechanism <select>.  setupEventListeners
\* registers no change listener on it, so only the element's value changes.
MechanismChange(m) ==
    /\ ~hidden
    /\ m # mechanismSelect
    /\ mechanismSelect' = m
    /\ UNCHANGED <<appVars, envVars, hidden, locks, pendingFrames, msgQueue,
                   workerVars, lastPosted, drawVars, sinceStop, shaderVars,
                   now>>

\* ----------------------------------------------------------------- worker

\* the iteration count without its floor of 10000
Iterations_noFloor(p) == (p * IterationScale) \div 100

\* floor((currentPower / 100) * 1000000) + 10000; for the integers 0..100
\* the double-precision result is the exact quotient
Iterations(p) == ((p * IterationScale) \div 100) + IterationFloor

\* The fields a worker task reads and writes.  lastUnit observes the task: the
\* number of loop steps of the unit of work it runs, 0 while it has run none.
Worker == [isRunning |-> isRunning, currentPower |-> currentPower,
           timers |-> timers, lastNonZero |-> lastNonZero,
           lastUnit |-> 0, sinceStop |-> sinceStop]

WorkerCommit(w) ==
    /\ Len(w.timers) <= MaxTimers
    /\ isRunning' = w.isRunning
    /\ currentPower' = w.currentPower
    /\ timers' = w.timers
    /\ lastNonZero' = w.lastNonZero
    /\ lastUnit' = w.lastUnit
    /\ sinceStop' = w.sinceStop
    /\ UNCHANGED <<appVars, envVars, hidden, locks, pendingFrames,
                   lastPosted, drawVars, shaderVars, now, mechanismSelect>>

\* heatingLoop without its `if (!isRunning || currentPower === 0) return`
heatingLoop_noCheck(w) ==
    [w EXCEPT !.lastUnit = Iterations(w.currentPower),
              !.sinceStop = IF @ >= 0 THEN Min(@ + 1, MaxCount) ELSE @,
              !.timers = Append(@, "fresh")]

heatingLoop(w) ==
    IF ~w.isRunning \/ w.currentPower = 0 THEN w
    ELSE [w EXCEPT !.lastUnit = Iterations(w.currentPower),
                   !.sinceStop = IF @ >= 0 THEN Min(@ + 1, MaxCount) ELSE @,
                   !.timers = Append(@, "fresh")]

\* the message listener without its `if (!isRunning)`: every power > 0
\* message starts a heating loop
onmessage_alwaysStart(w, p) ==
    IF p = 0
    THEN [w EXCEPT !.isRunning = FALSE,
                   !.sinceStop = -1,
                   !.timers = [i \in DOMAIN @ |-> "stale"]]
    ELSE heatingLoop([w EXCEPT !.currentPower = p, !.lastNonZero = p,
                               !.isRunning = TRUE])

\* the message listener assigning currentPower only when it starts the loop
onmessage_keepPower(w, p) ==
    IF p = 0
    THEN [w EXCEPT !.isRunning = FALSE,
                   !.sinceStop = -1,
                   !.timers = [i \in DOMAIN @ |-> "stale"]]
    ELSE
      IF ~w.isRunning
      THEN heatingLoop([w EXCEPT !.currentPower = p, !.lastNonZero = p,
                                 !.isRunning = TRUE])
      ELSE [w EXCEPT !.lastNonZero = p]

\* the worker's message listener
onmessage(w, p) ==
    IF p = 0
    THEN [w EXCEPT !.isRunning = FALSE,
                   !.sinceStop = -1,
                   !.timers = [i \in DOMAIN @ |-> "stale"]]
    ELSE
      LET w1 == [w EXCEPT !.currentPower = p, !.lastNonZero = p] IN
      IF ~w1.isRunning
      THEN heatingLoop([w1 EXCEPT !.isRunning = TRUE])
      ELSE w1

\* a message task of the worker's event loop
WorkerMessage ==
    /\ msgQueue # <<>>
    /\ msgQueue' = Tail(msgQueue)
    /\ WorkerCommit(onmessage(Worker, Head(msgQueue)))

\* a timer task of the worker's event loop: setTimeout(heatingLoop, 0) fires
WorkerTimer ==
    /\ timers # <<>>
    /\ WorkerCommit(heatingLoop([Worker EXCEPT !.timers = Tail(@)]))
    /\ UNCHANGED msgQueue

\* ------------------------------------------------------- fragment shader
\* A float is [m, e], the value m * 2^e, with m of at most MantissaBits bits.

BitLen(n) == IF n = 0 THEN 0 ELSE CHOOSE b \in 1..30 : 2^(b-1) <= n /\ n < 2^b

\* n / 2^sh rounded to an integer in the given mode
RoundShift(n, sh, mode) ==
    LET q == n \div 2^sh
        r == n % 2^sh
        half == 2^sh \div 2
    IN  IF sh = 0 \/ r = 0 THEN q
        ELSE IF mode = "down" THEN q
        ELSE IF r > half \/ (r = half /\ q % 2 = 1) THEN q + 1
        ELSE q

\* gl.uniform1f(location, power / 100.0): the quotient as a float, rounded to
\* nearest
ToFloat(p, d) ==
    IF p = 0 THEN [m |-> 0, e |-> 0]
    ELSE
      LET k == CHOOSE j \in 0..30 : d <= p * 2^j /\ p * 2^j < 2 * d
          n == p * 2^k * 2^(MantissaBits - 1)
          q == n \div d
          r == n % d
          m == IF 2 * r > d \/ (2 * r = d /\ q % 2 = 1) THEN q + 1 ELSE q
      IN  [m |-> m, e |-> 0 - k - (MantissaBits - 1)]

\* c = OddPart(c) * 2^TwoPart(c)
TwoPart(c) == CHOOSE j \in 0..30 : c % 2^j = 0 /\ c % 2^(j+1) # 0
OddPart(c) == c \div 2^TwoPart(c)

\* u * c for a float u and a float constant c that is a small integer
FloatMul(u, c, mode) ==
    LET prod == u.m * OddPart(c)
        sh == IF BitLen(prod) > MantissaBits THEN BitLen(prod) - MantissaBits ELSE 0
    IN  IF u.m = 0 THEN u
        ELSE [m |-> RoundShift(prod, sh, mode), e |-> u.e + TwoPart(c) + sh]

\* the gate written `i <= activeIterations`
LessThan_orEqual(i, a) == i * 2^(0 - a.e) <= a.m

\* i < a for an integer i in 0..200 and a float a with a.e <= 0
LessThan(i, a) == i * 2^(0 - a.e) < a.m

\* for (float i = 0.0; i < cap; i += 1.0) { if (i < active) { work } }:
\* the number of steps that do the work
GatedSteps(cap, active) == Cardinality({i \in 0..(cap - 1) : LessThan(i, active)})

\* the three loops of main() for the uniform u_power
ShaderMain(u_power, mode) ==
    LET activeIterations == FloatMul(u_power, MAX_ITERATIONS, mode)
        activeIterations2 == FloatMul(u_power, MAX_ITERATIONS_2, mode)
    IN  [loop1 |-> GatedSteps(MAX_ITERATIONS, activeIterations),
         loop2 |-> GatedSteps(MAX_ITERATIONS_2, activeIterations2),
         loop3 |-> Cardinality(0..(MAX_ITERATIONS_3 - 1))]

\* gl.drawArrays with u_power = power / 100.0: one run of the fragment shader
DrawArrays ==
    /\ loop1 = -1
    /\ LET r == ShaderMain(ToFloat(power, 100), rounding) IN
         /\ loop1' = r.loop1
         /\ loop2' = r.loop2
         /\ loop3' = r.loop3
    /\ UNCHANGED <<appVars, envVars, hidden, locks, pendingFrames, msgQueue,
                   workerVars, lastPosted, drawVars, sinceStop, rounding, now,
                   mechanismSelect>>

\* ------------------------------------------------------------ specification
InitApp(p) ==
    /\ isHeating = FALSE
    /\ power = p
    /\ mechanism = "both"
    /\ worker \in BOOLEAN
    /\ gpu \in BOOLEAN
    /\ animationFrame = 0
    /\ wakeLock = 0
    /\ potentiometerAngle = minAngle + (p * (maxAngle - minAngle)) \div 100
    /\ isDraggingPotentiometer = FALSE
    /\ potentiometerStartY = 0
    /\ potentiometerStartAngle = 0
    /\ isDraggingSlide = FALSE
    /\ hidden = FALSE
    /\ wakeLockSupported \in BOOLEAN
    /\ locks = <<>>
    /\ pendingFrames = {}
    /\ msgQueue = <<>>
    /\ isRunning = FALSE
    /\ currentPower = 0
    /\ timers = <<>>
    /\ lastPosted = -1
    /\ lastNonZero = 0
    /\ lastUnit = 0
    /\ uPower = -1
    /\ sinceStop = -1
    /\ now = 0
    /\ startTime = 0
    /\ sessionStart = 0
    /\ uTime = -1
    /\ mechanismSelect = "both"

Init ==
    /\ InitApp(DefaultPower)
    /\ rounding = "nearest"
    /\ loop1 = -1
    /\ loop2 = -1
    /\ loop3 = -1

Next ==
    \/ \E y \in DownYs : KnobDown(y)
    \/ SlideDown
    \/ \E y \in MoveYs : PointerMove(y)
    \/ \E activate \in BOOLEAN : PointerUp(activate)
    \/ VisibilityChange
    \/ BeforeUnload
    \/ \E h \in Slots, granted \in BOOLEAN : WakeLockSettled(h, granted)
    \/ \E id \in pendingFrames : AnimationFrame(id)
    \/ WorkerMessage
    \/ WorkerTimer

Spec == Init /\ [][Next]_vars

\* The same program with the clock moving between tasks.
ClockNext == Next \/ Tick

SpecClock == Init /\ [][ClockNext]_vars

\* The same program with the user operating the mechanism selector.
SelectNext == Next \/ \E m \in Mechanisms : MechanismChange(m)

SpecSelect == Init /\ [][SelectNext]_vars

\* The worker's event loop runs a task that stays ready: a message in flight
\* is delivered, a timer that is due fires.
SpecFair == Spec /\ WF_vars(WorkerMessage) /\ WF_vars(WorkerTimer)

\* The fragment shader as a function of the intensity: the knob set to any
\* intensity, then one draw.
ShaderInit ==
    /\ \E p \in 0..100 : InitApp(p)
    /\ rounding \in RoundingModes
    /\ loop1 = -1
    /\ loop2 = -1
    /\ loop3 = -1

ShaderNext == DrawArrays

SpecShader == ShaderInit /\ [][ShaderNext]_vars


\* ================================================================== claims

Pending(h) == h \in DOMAIN locks /\ locks[h].status = "pending"
Held(h) == h \in DOMAIN locks /\ locks[h].status = "held"
GpuEnabled(m, p) == (m = "both" \/ m = "gpu") /\ p > 0

\* the lifecycle signals that force a stop: the document became hidden, or
\* beforeunload
LifecycleStop == (VisibilityChange /\ hidden') \/ BeforeUnload

\* the handlers that reach updateHeating with isHeating set: a retune while
\* Active, the resumption of startHeating after its await
ApplyPass ==
    \/ isHeating /\ \E y \in MoveYs : PointerMove(y)
    \/ isHeating /\ \E h \in Slots, granted \in BOOLEAN : WakeLockSettled(h, granted)
    \/ ~isHeating /\ ~wakeLockSupported /\ isDraggingSlide /\ PointerUp(TRUE)

\* C1: whenever the controller is Idle no display-refresh callback is pending,
\* animationFrame is null, and the last message posted to the worker, if any,
\* is {power: 0}.
C1_IdleIsQuiet ==
    ~isHeating =>
        /\ animationFrame = 0
        /\ pendingFrames = {}
        /\ lastPosted \in {-1, 0}

\* C1 witness: Idle after a stop that posted power 0, with the wake-lock
\* request of a start still pending.
C1_Witness ==
    /\ ~isHeating
    /\ lastPosted = 0
    /\ \E h \in Slots : Pending(h)
    /\ \E h \in Slots : h \in DOMAIN locks /\ locks[h].releases = 1

\* C2: whenever the controller is Idle and no wake-lock request is in flight,
\* no wake lock is held.
C2_NoLockWhenIdle ==
    (~isHeating /\ \A h \in Slots : ~Pending(h)) => \A h \in Slots : ~Held(h)

\* C3: a hidden or unload signal received while Active with a held wake lock
\* makes the controller Idle and invokes release on that handle once; a
\* lifecycle signal received while Idle releases nothing; no handle ever has
\* release invoked on it twice.
C3_ReleasedOnce ==
    /\ [][(isHeating /\ wakeLock # 0 /\ Held(wakeLock) /\ LifecycleStop) =>
             /\ ~isHeating'
             /\ wakeLock' = 0
             /\ locks'[wakeLock].status = "released"
             /\ locks'[wakeLock].releases = locks[wakeLock].releases + 1
             /\ \A h \in DOMAIN locks \ {wakeLock} :
                    locks'[h].releases = locks[h].releases]_vars
    /\ [][(~isHeating /\ LifecycleStop) =>
             \A h \in DOMAIN locks : locks'[h].releases = locks[h].releases]_vars
    /\ [](\A h \in DOMAIN locks : locks[h].releases <= 1)

\* C3 witness: hidden and Idle, with a handle that was released by the stop.
C3_Witness ==
    /\ hidden
    /\ ~isHeating
    /\ wakeLock = 0
    /\ \E h \in DOMAIN locks : locks[h].status = "released" /\ locks[h].releases = 1

\* C4: the task that issues a draw leaves the controller Active with
\* intensity > 0 and a mechanism that includes the GPU; while the intensity is
\* 0 or the mechanism is CpuOnly no frame callback is pending; and an apply
\* pass with any mechanism and intensity that excludes the GPU issues no draw
\* and leaves no frame callback pending.
C4_DrawOnlyWhenEnabled ==
    /\ uPower # -1 => isHeating /\ GpuEnabled(mechanism, power) /\ uPower = power
    /\ ~GpuEnabled(mechanism, power) => animationFrame = 0 /\ pendingFrames = {}
    /\ \A m \in Mechanisms : \A p \in {0, power} :
          LET r == updateHeating([App EXCEPT !.isHeating = TRUE,
                                             !.mechanism = m, !.power = p])
          IN  (gpu /\ ~GpuEnabled(m, p)) =>
                  r.uPower = -1 /\ r.animationFrame = 0 /\ r.pendingFrames = {}

\* C4 witness: Active with a GPU, retuned to intensity 0 by a drag after the
\* wake lock was granted: the frame loop is cancelled.
C4_Witness ==
    /\ isHeating
    /\ gpu
    /\ wakeLock # 0
    /\ isDraggingPotentiometer
    /\ power = 0
    /\ lastPosted = 0
    /\ animationFrame = 0

\* what an apply pass is to post for a mechanism and an intensity
ExpectedPower(m, p) == IF m \in {"both", "cpu"} /\ p > 0 THEN p ELSE 0

C5_PostTable ==
    /\ \A m \in Mechanisms : \A p \in 0..100 : CpuMessage(m, p) = ExpectedPower(m, p)
    /\ CpuMessage("cpu", 50) = 50
    /\ \A m \in Mechanisms : CpuMessage(m, 0) = 0
    /\ \A p \in 0..100 : CpuMessage("gpu", p) = 0

\* C5: with a worker, every apply pass posts exactly one message: the
\* intensity if the mechanism includes the CPU and the intensity is > 0,
\* power 0 otherwise.
C5_ApplyPostsOne ==
    /\ [][(worker /\ ApplyPass) =>
             /\ msgQueue' = Append(msgQueue, ExpectedPower(mechanism', power'))
             /\ lastPosted' = ExpectedPower(mechanism', power')]_vars
    /\ []C5_PostTable

\* C5 witness: Active, retuned by a drag to intensity 100, {power: 100} the
\* last message posted and still in flight.
C5_Witness ==
    /\ isHeating
    /\ worker
    /\ isDraggingPotentiometer
    /\ power = 100
    /\ lastPosted = 100
    /\ msgQueue # <<>>
    /\ msgQueue[Len(msgQueue)] = 100

\* C6: a continuation that was scheduled when a power-0 message was received
\* runs no unit of work when it fires.
C6_StaleTerminates ==
    [][(WorkerTimer /\ timers # <<>> /\ Head(timers) = "stale") => lastUnit' = 0]_vars

\* C7: between the posting of a power-0 message to a Running worker and the
\* worker becoming non-Running, the worker runs at most one unit of work.
C7_StopLatency == sinceStop <= 1

C8_IterationsTable ==
    /\ \A p \in 1..100 : Iterations(p) = p * 10000 + 10000
    /\ \A p \in 1..99 : Iterations(p) < Iterations(p + 1)
    /\ Iterations(100) = 1010000

\* C8: a unit of work runs iterations(p) = p*10000 + 10000 loop steps for p
\* the power of the last non-zero message received, p in 1..100; iterations
\* is strictly increasing and iterations(100) = 1010000; no unit runs with
\* currentPower = 0.
C8_UnitIterations ==
    /\ lastUnit # 0 =>
          /\ currentPower \in 1..100
          /\ currentPower = lastNonZero
          /\ lastUnit = currentPower * 10000 + 10000
    /\ C8_IterationsTable

\* C8 witness: the last worker task ran a unit at power 100.
C8_Witness == lastUnit = 1010000 /\ isRunning /\ lastNonZero = 100

\* C9 (as stated): loop 1 does its gated work on 2p steps, loop 2 on p steps,
\* loop 3 does all 50 steps.
C9_ExactCounts ==
    loop1 # -1 => loop1 = 2 * power /\ loop2 = power /\ loop3 = 50

NearestRoundsUp == {15, 27, 30, 54, 60}

\* C9 (amended): loop 1 does its gated work on 2p or 2p+1 steps and loop 2 on
\* p or p+1 steps, the extra step being done when the float product
\* u_power * cap rounds to a value above 2p (resp. p): with round to nearest
\* at p in {15, 27, 30, 54, 60}, with round down never; loop 3 does all 50
\* steps.
C9_GatedCounts ==
    loop1 # -1 =>
        /\ loop1 \in {2 * power, 2 * power + 1}
        /\ loop2 \in {power, power + 1}
        /\ loop3 = 50
        /\ rounding = "nearest" =>
              /\ loop1 = 2 * power + 1 <=> power \in NearestRoundsUp
              /\ loop2 = power + 1 <=> power \in NearestRoundsUp
        /\ rounding = "down" => loop1 = 2 * power /\ loop2 = power

\* C9 witness: the default intensity 30 with round to nearest: 61 and 31 steps.
C9_Witness ==
    /\ power = 30
    /\ rounding = "nearest"
    /\ loop1 = 61
    /\ loop2 = 31
    /\ loop3 = 50

\* C10: a power > 0 message received while Running sets currentPower and
\* nothing else: no unit of work runs in that task and the scheduled
\* continuations are unchanged; every unit of work uses the power of the last
\* non-zero message received.
C10_UpdateOnly ==
    /\ [][(WorkerMessage /\ msgQueue # <<>> /\ Head(msgQueue) > 0 /\ isRunning) =>
             /\ currentPower' = Head(msgQueue)
             /\ isRunning'
             /\ timers' = timers
             /\ lastUnit' = 0]_vars
    /\ [](lastUnit # 0 => lastUnit = Iterations(lastNonZero))

\* C10 witness: Running with one continuation scheduled, the last worker task
\* a message that raised the power to 100 and ran no unit.
C10_Witness ==
    /\ isRunning
    /\ currentPower = 100
    /\ lastUnit = 0
    /\ Len(timers) = 1

\* the controller and the GPU frame loop in a handler's result
GpuSide(s) ==
    [isHeating |-> s.isHeating, power |-> s.power,
     potentiometerAngle |-> s.potentiometerAngle,
     animationFrame |-> s.animationFrame, pendingFrames |-> s.pendingFrames,
     uPower |-> s.uPower, uTime |-> s.uTime,
     wakeLock |-> s.wakeLock, locks |-> s.locks]

\* the controller and the worker's message port in a handler's result
CpuSide(s) ==
    [isHeating |-> s.isHeating, power |-> s.power,
     potentiometerAngle |-> s.potentiometerAngle,
     msgQueue |-> s.msgQueue, lastPosted |-> s.lastPosted,
     wakeLock |-> s.wakeLock, locks |-> s.locks]

\* start, the resumption of start after its await, retune (both drag
\* directions), stop and the frame callback, run from s
Operations(s) ==
    <<handleEnd([s EXCEPT !.isDraggingSlide = TRUE], TRUE),
      updateHeating(s),
      handleMove([s EXCEPT !.isDraggingPotentiometer = TRUE,
                           !.potentiometerStartAngle = s.potentiometerAngle,
                           !.potentiometerStartY = 0], -100),
      handleMove([s EXCEPT !.isDraggingPotentiometer = TRUE,
                           !.potentiometerStartAngle = s.potentiometerAngle,
                           !.potentiometerStartY = 0], 100),
      stopHeating(s),
      renderGPU(s)>>

\* C11: without a worker, start, retune and stop leave the controller and the
\* GPU frame loop exactly as with one, and nothing is ever posted; without a
\* GPU context or program no frame callback is scheduled and no draw issued,
\* and the same messages are posted as with one; a postMessage that throws
\* during stop still leaves the controller Idle with the pending frame
\* cancelled.
C11_ChannelIsolation ==
    /\ LET here == Operations(App)
           otherWorker == Operations([App EXCEPT !.worker = ~worker])
           otherGpu == Operations([App EXCEPT !.gpu = ~gpu])
       IN  \A i \in 1..6 :
              /\ GpuSide(otherWorker[i]) = GpuSide(here[i])
              /\ CpuSide(otherGpu[i]) = CpuSide(here[i])
    /\ ~worker => msgQueue = <<>> /\ lastPosted = -1
    /\ ~gpu => pendingFrames = {} /\ animationFrame = 0 /\ uPower = -1 /\ uTime = -1
    /\ LET r == stopHeatingWhen(App, TRUE) IN
          /\ ~r.isHeating
          /\ r.animationFrame = 0
          /\ r.pendingFrames = pendingFrames \ {animationFrame}
          /\ r.msgQueue = msgQueue

\* C11 witness: no worker; Active, retuned by a drag to intensity 100, and
\* the frame callback has drawn at that intensity and rescheduled itself.
C11_Witness ==
    /\ ~worker
    /\ gpu
    /\ isHeating
    /\ isDraggingPotentiometer
    /\ power = 100
    /\ uPower = 100
    /\ animationFrame \in pendingFrames

\* the apply pass has loaded the enabled channels
Applied ==
    /\ worker => /\ msgQueue' = Append(msgQueue, ExpectedPower(mechanism', power'))
                 /\ lastPosted' = ExpectedPower(mechanism', power')
    /\ (gpu /\ GpuEnabled(mechanism', power')) => animationFrame' \in pendingFrames'

\* C12: a start() with no wake-lock API, and the rejection of the wake-lock
\* request of the session under way, leave the controller Active with no
\* wake-lock handle stored, the apply pass done.
C12_FailureNonFatal ==
    /\ [][(~wakeLockSupported /\ ~isHeating /\ isDraggingSlide /\ PointerUp(TRUE)) =>
             isHeating' /\ wakeLock' = 0 /\ Applied]_vars
    /\ [][(isHeating /\ locks # <<>> /\ WakeLockSettled(Len(locks), FALSE)) =>
             isHeating' /\ wakeLock' = 0 /\ Applied]_vars

\* the step posts nothing, schedules or cancels no frame, issues no draw and
\* does not touch the wake lock
LoadPathUntouched ==
    /\ UNCHANGED <<msgQueue, lastPosted, animationFrame, pendingFrames,
                   wakeLock, locks>>
    /\ uPower' = -1

\* C13: stop while Idle and retune while Idle post no worker message,
\* schedule or cancel no GPU frame and do not touch the wake lock; start while
\* Active requests no second wake lock and performs no apply pass.
C13_NoOps ==
    /\ [][(~isHeating /\ isDraggingSlide /\ PointerUp(FALSE)) =>
             ~isHeating' /\ LoadPathUntouched]_vars
    /\ [][(~isHeating /\ \E y \in MoveYs : PointerMove(y)) =>
             ~isHeating' /\ LoadPathUntouched]_vars
    /\ [][(isHeating /\ isDraggingSlide /\ PointerUp(TRUE)) =>
             isHeating' /\ LoadPathUntouched]_vars
    /\ [](~isHeating => stopHeating(App) = App)
    /\ [](isHeating => startHeating(App) = App)

\* C13 witness: Idle after a session was stopped, the knob then dragged to
\* intensity 100: power 0 is still the last message posted.
C13_Witness ==
    /\ ~isHeating
    /\ isDraggingPotentiometer
    /\ power = 100
    /\ lastPosted = 0
    /\ pendingFrames = {}
    /\ \A h \in DOMAIN locks : locks[h].releases = 0

\* the step is a main-thread task that issues a draw: it sets the uniforms
\* and schedules a fresh frame callback
DrawIssued == uPower' # -1 /\ pendingFrames' # pendingFrames

\* C14: within one session the u_time of a draw is never below the u_time of
\* the draw before it, whichever task issues it (a frame callback, or a
\* retune that restarts the frame loop after a retune to intensity 0), and no
\* retune changes startTime.
C14_TimeMonotonic ==
    /\ [][(DrawIssued /\ uTime # -1) => uTime' >= uTime]_vars
    /\ [][(\E y \in MoveYs : PointerMove(y)) => startTime' = startTime]_vars

\* C14 witness: Active since clock 0, the knob dragged to intensity 100, a
\* draw at that intensity issued at the last clock value.
C14_Witness ==
    /\ isHeating
    /\ isDraggingPotentiometer
    /\ sessionStart = 0
    /\ power = 100
    /\ uPower = 100
    /\ uTime = MaxTime
    /\ now = MaxTime

\* pointer positions far outside and inside the knob's travel
PointerYs == {-100000, -101, -37, 0, 1, 63, 100000}

\* intensity, messages and uniform of a controller record are in range
InRange(s) ==
    /\ s.power \in 0..100
    /\ s.potentiometerAngle \in minAngle..maxAngle
    /\ \A i \in DOMAIN s.msgQueue : s.msgQueue[i] \in 0..100
    /\ s.lastPosted \in -1..100
    /\ s.uPower \in {-1} \cup 0..100

\* C15: the stored intensity is an integer in 0..100, every power posted to
\* the worker (and received by it) is in 0..100, every u_power uniform
\* (times 100) is in 0..100, and a drag of the knob to any pointer position
\* leaves them so.
C15_InRange ==
    /\ InRange([App EXCEPT !.uPower = uPower])
    /\ currentPower \in 0..100
    /\ \A y \in PointerYs :
          InRange(handleMove([App EXCEPT !.isDraggingPotentiometer = TRUE,
                                         !.potentiometerStartY = 0,
                                         !.potentiometerStartAngle =
                                               potentiometerAngle], y))

\* C15 witness: Active, the knob dragged past its upper stop: the angle is
\* clamped to maxAngle, and intensity 100 is posted and drawn.
C15_Witness ==
    /\ isHeating
    /\ isDraggingPotentiometer
    /\ potentiometerStartAngle + (potentiometerStartY + 100) * sensitivity > maxAngle
    /\ potentiometerAngle = maxAngle
    /\ power = 100
    /\ lastPosted = 100
    /\ uPower = 100

\* C16: selecting CpuOnly or GpuOnly while Active stores that mechanism in
\* the controller and re-runs the apply pass with it.
C16_MechanismRetune ==
    [][\A m \in Mechanisms :
          (isHeating /\ MechanismChange(m)) =>
              /\ mechanism' = m
              /\ worker => /\ msgQueue' = Append(msgQueue, ExpectedPower(m, power))
                           /\ lastPosted' = ExpectedPower(m, power)]_vars

\* C17: while the wake-lock request of the session under way has not
\* settled, no message with power > 0 has been posted for the session and no
\* draw has been issued: the last message posted, if any, is power 0, no frame
\* callback is pending and the task just run drew nothing.
C17_LockBeforeLoad ==
    (isHeating /\ locks # <<>> /\ Pending(Len(locks))) =>
        /\ lastPosted \in {-1, 0}
        /\ animationFrame = 0
        /\ pendingFrames = {}
        /\ uPower = -1

\* C18: every draw is issued by a display-refresh callback; with one callback
\* run per refresh and one draw per callback, at most one draw falls between
\* two consecutive refreshes.
C18_DrawsOnRefresh ==
    [][DrawIssued => \E id \in pendingFrames : AnimationFrame(id)]_vars

\* C19: the u_time of every draw is the time elapsed since the startHeating
\* call that opened the session under way.
C19_TimeSinceSessionStart ==
    [][DrawIssued => uTime' = now' - sessionStart']_vars

\* C20: a message task processes the oldest message in flight: power > 0
\* makes the worker Running with that currentPower, power 0 makes it
\* non-Running and keeps currentPower; so once no message is in flight the
\* worker is Running exactly when the last message posted has power > 0, and
\* currentPower is the power of the last non-zero message (the last message
\* posted, when that one is non-zero).
C20_LastPushWins ==
    /\ [][WorkerMessage =>
             /\ msgQueue' = Tail(msgQueue)
             /\ Head(msgQueue) > 0 => isRunning' /\ currentPower' = Head(msgQueue)
             /\ Head(msgQueue) = 0 => ~isRunning' /\ currentPower' = currentPower]_vars
    /\ [](msgQueue = <<>> =>
             /\ isRunning <=> lastPosted > 0
             /\ lastPosted > 0 => currentPower = lastPosted
             /\ currentPower = lastNonZero)

\* C20 witness: every message processed, the last one posted power 0 after
\* power 100: the worker is non-Running, currentPower is still 100 and the
\* loop's continuation has yet to fire.
C20_Witness ==
    /\ worker
    /\ msgQueue = <<>>
    /\ lastPosted = 0
    /\ ~isRunning
    /\ currentPower = 100
    /\ timers # <<>>

\* nothing is left to run: the worker is non-Running with no message in
\* flight and no continuation scheduled, and no frame callback is pending
Quiescent ==
    /\ ~isRunning
    /\ msgQueue = <<>>
    /\ timers = <<>>
    /\ pendingFrames = {}
    /\ animationFrame = 0

\* C21: if from some point on the controller stays Idle (a stop followed by
\* no other start), then from some point on the system stays quiescent: no
\* worker task is left that could run a unit of work, and no frame callback
\* is pending.
C21_EventuallyQuiescent == <>[](~isHeating) => <>[]Quiescent

\* C21 witness: quiescent after a session in which the worker ran at power
\* 100 and was stopped.
C21_Witness ==
    /\ worker
    /\ ~isHeating
    /\ lastPosted = 0
    /\ currentPower = 100
    /\ Quiescent

\* C22: at most one heatingLoop continuation is scheduled.
C22_OneLoop == Len(timers) <= 1

\* C23: at most one display-refresh callback is pending, and animationFrame
\* is non-null exactly when one is pending, the pending callback being the
\* one animationFrame names.
C23_FrameHandleConsistent ==
    /\ Cardinality(pendingFrames) <= 1
    /\ animationFrame # 0 <=> pendingFrames # {}
    /\ animationFrame # 0 => pendingFrames = {animationFrame}

\* C23 witness: Active with the wake lock held, the knob being dragged, and
\* the frame callback has run, drawn and rescheduled itself: the one pending
\* callback is the one animationFrame names.
C23_Witness ==
    /\ isHeating
    /\ wakeLock # 0
    /\ isDraggingPotentiometer
    /\ animationFrame > 1
    /\ pendingFrames = {animationFrame}

\* C24: at most one wake-lock handle is acquired and not yet released.
C24_OneHandleHeld == Cardinality({h \in DOMAIN locks : Held(h)}) <= 1

====
